---- MODULE Spec2Model ----
(***************************************************************************)
(* Model of the LWFFL draft-metrics engine (draft-metrics.mjs, kept in     *)
(* src/unnamed/part_002) and of the script that drives it                  *)
(* (src/scripts/enrich-draft-history.mjs).                                 *)
(*                                                                         *)
(* JavaScript values are tagged records:                                   *)
(*   undefined, null, booleans, numbers (exact rationals n/d, with d = 0   *)
(*   standing for the non-finite numbers) and strings (sequences of        *)
(*   one-character strings).  Objects are functions from property names to *)
(*   values, arrays are sequences.                                         *)
(***************************************************************************)
EXTENDS Integers, Sequences, FiniteSets, TLC

\* ---------------------------------------------------------------- values
Undef == [t |-> "undefined"]
Null == [t |-> "null"]
Bool(b) == [t |-> "bool", b |-> b]
Str(s) == [t |-> "str", s |-> s]

Abs(i) == IF i < 0 THEN -i ELSE i

RECURSIVE GCD(_, _)
GCD(a, b) == IF b = 0 THEN a ELSE GCD(b, a % b)

Sign(i) == IF i < 0 THEN -1 ELSE IF i > 0 THEN 1 ELSE 0

\* the number n/d in lowest terms with d > 0; d = 0 gives the non-finite
\* numbers: 1/0 is Infinity, -1/0 is -Infinity, 0/0 is NaN
Q(n, d) ==
  IF d = 0 THEN [t |-> "num", n |-> Sign(n), d |-> 0]
  ELSE LET g == GCD(Abs(n), Abs(d))
           s == IF d < 0 THEN -1 ELSE 1
       IN [t |-> "num", n |-> (s * n) \div g, d |-> (s * d) \div g]

NumI(i) == [t |-> "num", n |-> i, d |-> 1]
NaN == [t |-> "num", n |-> 0, d |-> 0]
PosInfinity == [t |-> "num", n |-> 1, d |-> 0]
NegInfinity == [t |-> "num", n |-> -1, d |-> 0]

IsNum(v) == v.t = "num"
IsStr(v) == v.t = "str"
\* Number.isFinite on a number value
IsFinite(v) == v.d # 0
\* v == null (loose equality: null or undefined)
IsNullish(v) == v.t \in {"null", "undefined"}
\* a ?? b
Coalesce(a, b) == IF IsNullish(a) THEN b ELSE a

\* IEEE arithmetic and comparison on numbers
IsNaN(a) == a.n = 0 /\ a.d = 0
NumLt(a, b) == a.n * b.d < b.n * a.d
NumLe(a, b) == NumLt(a, b) \/ (a = b /\ ~IsNaN(a))
NumNeg(a) == [t |-> "num", n |-> -a.n, d |-> a.d]
NumAdd(a, b) ==
  IF IsNaN(a) \/ IsNaN(b) THEN NaN
  ELSE IF a.d = 0 /\ b.d = 0 THEN (IF a.n = b.n THEN a ELSE NaN)
  ELSE IF a.d = 0 THEN a
  ELSE IF b.d = 0 THEN b
  ELSE Q(a.n * b.d + b.n * a.d, a.d * b.d)
NumSub(a, b) == NumAdd(a, NumNeg(b))
NumDiv(a, b) ==
  IF IsNaN(a) \/ IsNaN(b) \/ (a.d = 0 /\ b.d = 0) THEN NaN
  ELSE IF b.d = 0 THEN NumI(0)
  ELSE IF a.d = 0 THEN (IF b.n < 0 THEN NumNeg(a) ELSE a)
  ELSE Q(a.n * b.d, a.d * b.n)
\* Math.floor of a finite number
NumFloor(a) == NumI(a.n \div a.d)
\* Math.min of two numbers
NumMin(a, b) == IF IsNaN(a) \/ IsNaN(b) THEN NaN ELSE IF NumLt(b, a) THEN b ELSE a
\* sign of a - b for finite numbers
NumCmp(a, b) == Sign(a.n * b.d - b.n * a.d)

\* --------------------------------------------------------------- strings
Digits == <<"0", "1", "2", "3", "4", "5", "6", "7", "8", "9">>
IsDigit(c) == \E i \in 1..10 : Digits[i] = c
DigitVal(c) == (CHOOSE i \in 1..10 : Digits[i] = c) - 1
IsSpace(c) == c = " "

Lower == <<"a","b","c","d","e","f","g","h","i","j","k","l","m",
           "n","o","p","q","r","s","t","u","v","w","x","y","z">>
Upper == <<"A","B","C","D","E","F","G","H","I","J","K","L","M",
           "N","O","P","Q","R","S","T","U","V","W","X","Y","Z">>
IsLower(c) == \E i \in 1..26 : Lower[i] = c
IsUpper(c) == \E i \in 1..26 : Upper[i] = c
\* String.prototype.toUpperCase
ToUpperChar(c) == IF IsLower(c) THEN Upper[CHOOSE i \in 1..26 : Lower[i] = c] ELSE c
ToUpperCase(s) == [i \in 1..Len(s) |-> ToUpperChar(s[i])]

RECURSIVE TrimLeft(_)
TrimLeft(s) == IF s # <<>> /\ IsSpace(Head(s)) THEN TrimLeft(Tail(s)) ELSE s
RECURSIVE TrimRight(_)
TrimRight(s) ==
  IF s # <<>> /\ IsSpace(s[Len(s)]) THEN TrimRight(SubSeq(s, 1, Len(s) - 1)) ELSE s
\* String.prototype.trim
Trim(s) == TrimRight(TrimLeft(s))

\* decimal digits of a natural number
RECURSIVE NatToString(_)
NatToString(n) ==
  IF n < 10 THEN <<Digits[n + 1]>> ELSE NatToString(n \div 10) \o <<Digits[(n % 10) + 1]>>

\* String(v) for a finite number whose denominator is 1 or 2
NumToString(v) ==
  LET neg == v.n < 0
      a == Abs(v.n)
      body == IF v.d = 1 THEN NatToString(a)
              ELSE NatToString(a \div 2) \o <<".", "5">>
  IN IF neg THEN <<"-">> \o body ELSE body

\* String(v)
JsString(v) ==
  CASE v.t = "str" -> v.s
    [] v.t = "num" -> NumToString(v)
    [] v.t = "null" -> <<"n","u","l","l">>
    [] v.t = "undefined" -> <<"u","n","d","e","f","i","n","e","d">>
    [] v.t = "bool" -> IF v.b THEN <<"t","r","u","e">> ELSE <<"f","a","l","s","e">>

AllDigits(s) == \A i \in 1..Len(s) : IsDigit(s[i])
RECURSIVE DigitsToNat(_)
DigitsToNat(s) ==
  IF s = <<>> THEN 0 ELSE 10 * DigitsToNat(SubSeq(s, 1, Len(s) - 1)) + DigitVal(s[Len(s)])
RECURSIVE Pow10(_)
Pow10(k) == IF k = 0 THEN 1 ELSE 10 * Pow10(k - 1)

\* Number(s) for an unsigned decimal literal: digits, optionally "." digits
UnsignedToNumber(s) ==
  LET dots == {i \in 1..Len(s) : s[i] = "."}
  IN IF s = <<>> THEN NaN
     ELSE IF dots = {} THEN (IF AllDigits(s) THEN NumI(DigitsToNat(s)) ELSE NaN)
     ELSE IF Cardinality(dots) > 1 THEN NaN
     ELSE LET p == CHOOSE i \in dots : TRUE
              ip == SubSeq(s, 1, p - 1)
              fp == SubSeq(s, p + 1, Len(s))
          IN IF ~AllDigits(ip) \/ ~AllDigits(fp) \/ (ip = <<>> /\ fp = <<>>) THEN NaN
             ELSE Q(DigitsToNat(ip) * Pow10(Len(fp)) + DigitsToNat(fp), Pow10(Len(fp)))

\* Number(s) on a string: surrounding blanks ignored, "" is 0, optional sign,
\* decimal literal; anything else is NaN
StringToNumber(s) ==
  LET u == Trim(s)
  IN IF u = <<>> THEN NumI(0)
     ELSE IF Head(u) = "-"
       THEN (LET m == UnsignedToNumber(Tail(u))
             IN IF IsFinite(m) THEN Q(-m.n, m.d) ELSE NaN)
     ELSE IF Head(u) = "+" THEN UnsignedToNumber(Tail(u))
     ELSE UnsignedToNumber(u)

\* --------------------------------------------------------------- objects
\* obj[key], undefined when the property is missing
Get(obj, key) == IF key \in DOMAIN obj THEN obj[key] ELSE Undef
\* { ...a, ...b }
Spread(a, b) == [k \in (DOMAIN a) \cup (DOMAIN b) |-> IF k \in DOMAIN b THEN b[k] ELSE a[k]]
\* the object without the listed properties (rest destructuring)
Omit(obj, keys) == [k \in (DOMAIN obj) \ keys |-> obj[k]]
EmptyObj == [k \in {} |-> Undef]

\* SameValueZero, the key equality of Map (and === on the values used here)
StrictEq(a, b) == a.t = b.t /\ a = b

\* ------------------------------------------------------ string literals
S_QB == <<"Q","B">>
S_RB == <<"R","B">>
S_WR == <<"W","R">>
S_TE == <<"T","E">>
S_K == <<"K">>
S_DST == <<"D","S","T">>
S_excluded == <<"e","x","c","l","u","d","e","d">>
S_unranked == <<"u","n","r","a","n","k","e","d">>
S_win == <<"w","i","n">>
S_loss == <<"l","o","s","s">>
S_neutral == <<"n","e","u","t","r","a","l">>
S_cap == <<"c","a","p">>
S_draftCount == <<"d","r","a","f","t","C","o","u","n","t">>
S_unknown == <<"u","n","k","n","o","w","n">>
S_UnknownManager == <<"U","n","k","n","o","w","n"," ","M","a","n","a","g","e","r">>
S_UnknownPlayer == <<"U","n","k","n","o","w","n"," ","P","l","a","y","e","r">>
S_UnknownYear == <<"U","n","k","n","o","w","n"," ","Y","e","a","r">>

\* ------------------------------------------------------- configuration
DEFAULT_POSITION_CAPS ==
  (S_QB :> NumI(24)) @@ (S_RB :> NumI(60)) @@ (S_WR :> NumI(60)) @@
  (S_TE :> NumI(30)) @@ (S_K :> Null) @@ (S_DST :> Null)

MANAGER_FIELD_CANDIDATES == <<"manager", "owner", "teamOwner", "team_owner", "gm">>
FINISH_RANK_FIELD_CANDIDATES == <<"positionrank", "position rank", "positionRank">>
PLAYER_FIELD_CANDIDATES == <<"player", "name">>
PRICE_FIELD_CANDIDATES == <<"price", "auctionPrice", "auction_price", "cost">>

defaultMetricConfig ==
  ("positionCaps" :> DEFAULT_POSITION_CAPS) @@ ("finishPoolStrategy" :> Str(S_draftCount))

\* ------------------------------------------------------- field resolver
isNilOrBlank(v) == IsNullish(v) \/ (IsStr(v) /\ Trim(v.s) = <<>>)

toFiniteNumber(v) ==
  IF IsNum(v) /\ IsFinite(v) THEN v
  ELSE IF IsStr(v) /\ Trim(v.s) # <<>>
    THEN (LET n == StringToNumber(v.s) IN IF IsFinite(n) THEN n ELSE Null)
  ELSE Null

firstPresentValue(obj, candidates) ==
  LET present == {i \in 1..Len(candidates) : candidates[i] \in DOMAIN obj}
  IN IF present = {} THEN Undef
     ELSE obj[candidates[CHOOSE i \in present : \A j \in present : i <= j]]

normalizePosition(position) ==
  LET raw == ToUpperCase(Trim(JsString(Coalesce(position, Str(<<>>)))))
  IN IF raw = <<"D","/","S","T">> \/ raw = S_DST \/ raw = <<"D","E","F">> \/ raw = <<"D">>
       THEN S_DST
     ELSE IF raw = S_K \/ raw = <<"P","K">> THEN S_K
     ELSE IF raw = S_QB \/ raw = S_RB \/ raw = S_WR \/ raw = S_TE THEN raw
     ELSE S_DST

parseFinishRank(row) ==
  LET raw == firstPresentValue(row, FINISH_RANK_FIELD_CANDIDATES)
      parsed == toFiniteNumber(raw)
  IN IF IsNullish(parsed) \/ NumLe(parsed, NumI(0)) THEN Null ELSE NumFloor(parsed)

detectManagerValue(row) ==
  LET raw == firstPresentValue(row, MANAGER_FIELD_CANDIDATES)
  IN IF isNilOrBlank(raw) THEN Str(S_UnknownManager) ELSE Str(Trim(JsString(raw)))

detectPlayerValue(row) ==
  LET raw == firstPresentValue(row, PLAYER_FIELD_CANDIDATES)
  IN IF isNilOrBlank(raw) THEN Str(S_UnknownPlayer) ELSE Str(Trim(JsString(raw)))

parseAuctionPrice(row) ==
  LET raw == firstPresentValue(row, PRICE_FIELD_CANDIDATES)
      parsed == toFiniteNumber(raw)
  IN IF ~IsNullish(parsed) /\ NumLe(NumI(0), parsed) THEN parsed ELSE Null

\* ------------------------------------------------------------ normalizer
normalizeRow(row, sourceIndex) ==
  LET normalizedPosition == normalizePosition(Get(row, "position"))
      overall == toFiniteNumber(Get(row, "overall"))
      year == toFiniteNumber(Get(row, "year"))
  IN Spread(row,
       ("__sourceIndex" :> NumI(sourceIndex)) @@
       ("__analysisYear" :> (IF ~IsNullish(year) THEN NumFloor(year) ELSE Null)) @@
       ("__analysisOverall" :> overall) @@
       ("normalizedPosition" :> Str(normalizedPosition)) @@
       ("isDefenseOrKicker" :> Bool(normalizedPosition = S_DST \/ normalizedPosition = S_K)) @@
       ("managerValue" :> detectManagerValue(row)) @@
       ("playerValue" :> detectPlayerValue(row)) @@
       ("finishRank" :> parseFinishRank(row)) @@
       ("auctionPrice" :> parseAuctionPrice(row)))

\* sourceEntries.map((row, sourceIndex) => ...), sourceIndex counted from 0
normalizeEntries(entries) == [i \in 1..Len(entries) |-> normalizeRow(entries[i], i - 1)]

\* ------------------------------------------------- Map and Array helpers
\* a Map is the sequence of its entries [key, rows] in insertion order
MapHas(map, key) == \E i \in 1..Len(map) : StrictEq(map[i].key, key)
\* if (!map.has(key)) map.set(key, []); map.get(key).push(val)
MapPush(map, key, val) ==
  IF MapHas(map, key)
    THEN [i \in 1..Len(map) |->
            IF StrictEq(map[i].key, key)
              THEN [key |-> map[i].key, rows |-> Append(map[i].rows, val)]
              ELSE map[i]]
    ELSE Append(map, [key |-> key, rows |-> <<val>>])
\* if (!map.has(key)) map.set(key, [])
MapEnsure(map, key) ==
  IF MapHas(map, key) THEN map ELSE Append(map, [key |-> key, rows |-> <<>>])

RECURSIVE GroupInto(_, _, _)
GroupInto(map, keys, vals) ==
  IF keys = <<>> THEN map
  ELSE GroupInto(MapPush(map, Head(keys), Head(vals)), Tail(keys), Tail(vals))

\* Array.prototype.sort (stable) as an insertion sort over the indices of the
\* array; cmp[i][j] is the comparator applied to elements i and j
RECURSIVE InsertSorted(_, _, _)
InsertSorted(sorted, x, cmp) ==
  IF sorted = <<>> THEN <<x>>
  ELSE IF cmp[Head(sorted)][x] > 0 THEN <<x>> \o sorted
  ELSE <<Head(sorted)>> \o InsertSorted(Tail(sorted), x, cmp)
RECURSIVE SortFrom(_, _, _, _)
SortFrom(sorted, k, n, cmp) ==
  IF k > n THEN sorted ELSE SortFrom(InsertSorted(sorted, k, cmp), k + 1, n, cmp)
ArraySort(arr, cmp) ==
  LET perm == SortFrom(<<>>, 1, Len(arr), cmp)
  IN [i \in 1..Len(arr) |-> arr[perm[i]]]

\* --------------------------------------------------------- cohort indexer
percentileFromRank(rank, poolSize) ==
  IF IsNullish(rank) \/ IsNullish(poolSize) \/ NumLe(poolSize, NumI(0)) THEN Null
  ELSE IF poolSize = NumI(1) THEN NumI(1)
  ELSE NumDiv(NumSub(poolSize, rank), NumSub(poolSize, NumI(1)))

\* `${row.__analysisYear ?? 'unknown'}__${row.normalizedPosition}`
cohortKey(row) ==
  Str(JsString(Coalesce(row["__analysisYear"], Str(S_unknown))) \o <<"_", "_">>
      \o JsString(row["normalizedPosition"]))

\* a draft-order comparator that sorts a missing overall pick first
draftOrderCompareNullFirst(a, b) ==
  LET ao == a["__analysisOverall"]
      bo == b["__analysisOverall"]
      byIndex == Sign(a["__sourceIndex"].n - b["__sourceIndex"].n)
  IN IF IsNullish(ao) /\ IsNullish(bo) THEN byIndex
     ELSE IF IsNullish(ao) THEN -1
     ELSE IF IsNullish(bo) THEN 1
     ELSE IF ao # bo THEN NumCmp(ao, bo)
     ELSE byIndex

\* the comparator of the draft-order sort (sign of the returned number)
draftOrderCompare(a, b) ==
  LET ao == a["__analysisOverall"]
      bo == b["__analysisOverall"]
      byIndex == Sign(a["__sourceIndex"].n - b["__sourceIndex"].n)
  IN IF IsNullish(ao) /\ IsNullish(bo) THEN byIndex
     ELSE IF IsNullish(ao) THEN 1
     ELSE IF IsNullish(bo) THEN -1
     ELSE IF ao # bo THEN NumCmp(ao, bo)
     ELSE byIndex

withPositionDraftOrder(normalizedRows) ==
  LET keys == [i \in 1..Len(normalizedRows) |-> cohortKey(normalizedRows[i])]
      byYearPos == GroupInto(<<>>, keys, normalizedRows)
      sortedRows(g) ==
        LET rows == byYearPos[g].rows
        IN ArraySort(rows, [i \in 1..Len(rows) |->
                             [j \in 1..Len(rows) |-> draftOrderCompare(rows[i], rows[j])]])
      slots == {<<g, idx>> : g \in 1..Len(byYearPos), idx \in 1..Len(normalizedRows)}
      filled == {e \in slots : e[2] <= Len(byYearPos[e[1]].rows)}
      indexOf(e) == sortedRows(e[1])[e[2]]["__sourceIndex"].n
  IN [si \in {indexOf(e) : e \in filled} |->
        LET e == CHOOSE x \in filled : indexOf(x) = si
        IN [posDraftOrder |-> NumI(e[2]),
            posDraftCount |-> NumI(Len(byYearPos[e[1]].rows))]]

\* the comparator of the price-order sort
priceOrderCompare(a, b) ==
  IF a["auctionPrice"] # b["auctionPrice"]
    THEN NumCmp(b["auctionPrice"], a["auctionPrice"])
    ELSE Sign(a["__sourceIndex"].n - b["__sourceIndex"].n)

RECURSIVE GroupPriced(_, _)
GroupPriced(map, rows) ==
  IF rows = <<>> THEN map
  ELSE LET row == Head(rows)
           key == cohortKey(row)
       IN GroupPriced(IF ~IsNullish(row["auctionPrice"])
                        THEN MapPush(map, key, row)
                        ELSE MapEnsure(map, key),
                      Tail(rows))

withPositionPriceOrder(normalizedRows) ==
  LET byYearPos == GroupPriced(<<>>, normalizedRows)
      sortedRows(g) ==
        LET rows == byYearPos[g].rows
        IN ArraySort(rows, [i \in 1..Len(rows) |->
                             [j \in 1..Len(rows) |-> priceOrderCompare(rows[i], rows[j])]])
      slots == {<<g, idx>> : g \in 1..Len(byYearPos), idx \in 1..Len(normalizedRows)}
      filled == {e \in slots : e[2] <= Len(byYearPos[e[1]].rows)}
      indexOf(e) == sortedRows(e[1])[e[2]]["__sourceIndex"].n
  IN [si \in {indexOf(e) : e \in filled} |->
        LET e == CHOOSE x \in filled : indexOf(x) = si
        IN [posPriceOrder |-> NumI(e[2]),
            posPriceCount |-> NumI(Len(byYearPos[e[1]].rows))]]

\* ------------------------------------------------------ metric calculator
\* { ...defaultMetricConfig(), ...config,
\*   positionCaps: { ...DEFAULT_POSITION_CAPS, ...(config.positionCaps || {}) } }
mergeConfig(config) ==
  Spread(Spread(defaultMetricConfig, config),
         "positionCaps" :>
           Spread(DEFAULT_POSITION_CAPS,
                  IF "positionCaps" \in DOMAIN config THEN config["positionCaps"] ELSE EmptyObj))

\* a pool size under 'cap' that does not fall back to the draft count
finishPoolSizeNoFallback(strategy, cap, posDraftCount) ==
  IF StrictEq(strategy, Str(S_cap)) THEN cap ELSE posDraftCount

\* a pool size that takes the cap whenever there is one, whatever the strategy
finishPoolSizeIgnoringStrategy(strategy, cap, posDraftCount) ==
  IF ~IsNullish(cap) THEN cap ELSE posDraftCount

\* cfg.finishPoolStrategy === 'cap' && cap != null ? cap : posDraftCount
finishPoolSizeOf(strategy, cap, posDraftCount) ==
  IF StrictEq(strategy, Str(S_cap)) /\ ~IsNullish(cap) THEN cap ELSE posDraftCount

\* an imputation that forgets the K/DST exclusion
imputedFinishRankAnyPosition(isDefenseOrKicker, finishRank, finishPoolSize) ==
  IF IsNullish(finishRank) /\ ~IsNullish(finishPoolSize) THEN finishPoolSize ELSE Null

\* !isDefenseOrKicker && finishRank == null && finishPoolSize != null
\*   ? finishPoolSize : null
imputedFinishRankOf(isDefenseOrKicker, finishRank, finishPoolSize) ==
  IF ~isDefenseOrKicker /\ IsNullish(finishRank) /\ ~IsNullish(finishPoolSize)
    THEN finishPoolSize ELSE Null

\* a clamp that takes the larger of the two
cappedFinishRankByMax(effectiveFinishRank, cap) ==
  IF ~IsNullish(effectiveFinishRank) /\ ~IsNullish(cap)
    THEN (IF NumLt(effectiveFinishRank, cap) THEN cap ELSE effectiveFinishRank) ELSE Null

\* effectiveFinishRank != null && cap != null ? Math.min(effectiveFinishRank, cap) : null
cappedFinishRankOf(effectiveFinishRank, cap) ==
  IF ~IsNullish(effectiveFinishRank) /\ ~IsNullish(cap)
    THEN NumMin(effectiveFinishRank, cap) ELSE Null

\* eligibility that forgets the K/DST exclusion
isRankEligibleAnyPosition(isDefenseOrKicker, effectiveFinishRank) ==
  ~IsNullish(effectiveFinishRank)

\* !isDefenseOrKicker && effectiveFinishRank != null
isRankEligibleOf(isDefenseOrKicker, effectiveFinishRank) ==
  ~isDefenseOrKicker /\ ~IsNullish(effectiveFinishRank)

\* let hitTier = 'neutral'; if ... else if ...
hitTierOf(isDefenseOrKicker, isRankEligible, beatCost, missedCost) ==
  IF isDefenseOrKicker THEN S_excluded
  ELSE IF ~isRankEligible THEN S_unranked
  ELSE IF beatCost THEN S_win
  ELSE IF missedCost THEN S_loss
  ELSE S_neutral

\* a rest destructuring that also takes the manager property out
sourcePreservedWithoutManager(row) ==
  Omit(row, {"__sourceIndex", "__analysisYear", "__analysisOverall",
             "managerValue", "playerValue", "manager"})

\* const { __sourceIndex, __analysisYear, __analysisOverall, managerValue,
\*         playerValue, ...sourcePreserved } = row
sourcePreservedOf(row) ==
  Omit(row, {"__sourceIndex", "__analysisYear", "__analysisOverall",
             "managerValue", "playerValue"})

\* the callback of normalized.map in enrichDraftEntries
enrichRow(row, cfg, draftOrderMeta, priceOrderMeta) ==
  LET si == row["__sourceIndex"].n
      orderMeta == IF si \in DOMAIN draftOrderMeta THEN draftOrderMeta[si]
                   ELSE [posDraftOrder |-> Null, posDraftCount |-> Null]
      auctionMeta == IF si \in DOMAIN priceOrderMeta THEN priceOrderMeta[si]
                     ELSE [posPriceOrder |-> Null, posPriceCount |-> Null]
      posDraftOrder == orderMeta.posDraftOrder
      posDraftCount == orderMeta.posDraftCount
      posPriceOrder == auctionMeta.posPriceOrder
      posPriceCount == auctionMeta.posPriceCount
      finishRank == row["finishRank"]
      cap == Coalesce(Get(cfg["positionCaps"], row["normalizedPosition"].s), Null)
      isDefenseOrKicker == row["isDefenseOrKicker"].b
      finishPoolSize == finishPoolSizeOf(cfg["finishPoolStrategy"], cap, posDraftCount)
      imputedFinishRank == imputedFinishRankOf(isDefenseOrKicker, finishRank, finishPoolSize)
      effectiveFinishRank == Coalesce(finishRank, imputedFinishRank)
      cappedFinishRank == cappedFinishRankOf(effectiveFinishRank, cap)
      isRankEligible == isRankEligibleOf(isDefenseOrKicker, effectiveFinishRank)
      draftPercentileWithinPos ==
        IF ~isDefenseOrKicker THEN percentileFromRank(posDraftOrder, posDraftCount) ELSE Null
      finishPercentileWithinPos ==
        IF isRankEligible THEN percentileFromRank(effectiveFinishRank, finishPoolSize) ELSE Null
      percentileDelta ==
        IF ~IsNullish(draftPercentileWithinPos) /\ ~IsNullish(finishPercentileWithinPos)
          THEN NumSub(finishPercentileWithinPos, draftPercentileWithinPos) ELSE Null
      posRankDelta == IF isRankEligible THEN NumSub(posDraftOrder, effectiveFinishRank) ELSE Null
      cappedPosRankDelta ==
        IF isRankEligible /\ ~IsNullish(cappedFinishRank)
          THEN NumSub(posDraftOrder, cappedFinishRank) ELSE Null
      priceVsFinishDelta ==
        IF isRankEligible /\ ~IsNullish(posPriceOrder)
          THEN NumSub(posPriceOrder, effectiveFinishRank) ELSE Null
      valueRatio == IF isRankEligible THEN NumDiv(posDraftOrder, effectiveFinishRank) ELSE Null
      cappedValueRatio ==
        IF isRankEligible /\ ~IsNullish(cappedFinishRank)
          THEN NumDiv(posDraftOrder, cappedFinishRank) ELSE Null
      beatCost == IF isRankEligible THEN NumLt(effectiveFinishRank, posDraftOrder) ELSE FALSE
      metCost == IF isRankEligible THEN effectiveFinishRank = posDraftOrder ELSE FALSE
      missedCost == IF isRankEligible THEN NumLt(posDraftOrder, effectiveFinishRank) ELSE FALSE
      hitTier == hitTierOf(isDefenseOrKicker, isRankEligible, beatCost, missedCost)
      sourcePreserved == sourcePreservedOf(row)
  IN Spread(sourcePreserved,
       ("managerValue" :> row["managerValue"]) @@
       ("playerValue" :> row["playerValue"]) @@
       ("isDefenseOrKicker" :> Bool(isDefenseOrKicker)) @@
       ("normalizedPosition" :> row["normalizedPosition"]) @@
       ("isRankEligible" :> Bool(isRankEligible)) @@
       ("posDraftOrder" :> posDraftOrder) @@
       ("posDraftCount" :> posDraftCount) @@
       ("auctionPrice" :> row["auctionPrice"]) @@
       ("posPriceOrder" :> posPriceOrder) @@
       ("posPriceCount" :> posPriceCount) @@
       ("finishRank" :> finishRank) @@
       ("imputedFinishRank" :> imputedFinishRank) @@
       ("effectiveFinishRank" :> effectiveFinishRank) @@
       ("cappedFinishRank" :> cappedFinishRank) @@
       ("posRankDelta" :> posRankDelta) @@
       ("cappedPosRankDelta" :> cappedPosRankDelta) @@
       ("priceVsFinishDelta" :> priceVsFinishDelta) @@
       ("valueRatio" :> valueRatio) @@
       ("cappedValueRatio" :> cappedValueRatio) @@
       ("draftPercentileWithinPos" :> draftPercentileWithinPos) @@
       ("finishPercentileWithinPos" :> finishPercentileWithinPos) @@
       ("percentileDelta" :> percentileDelta) @@
       ("beatCost" :> Bool(beatCost)) @@
       ("metCost" :> Bool(metCost)) @@
       ("missedCost" :> Bool(missedCost)) @@
       ("hitTier" :> Str(hitTier)))

enrichDraftEntries(entries, config) ==
  LET cfg == mergeConfig(config)
      normalized == normalizeEntries(entries)
      draftOrderMeta == withPositionDraftOrder(normalized)
      priceOrderMeta == withPositionPriceOrder(normalized)
  IN [i \in 1..Len(normalized) |-> enrichRow(normalized[i], cfg, draftOrderMeta, priceOrderMeta)]

\* ------------------------------------------------------------ aggregator
\* String.prototype.localeCompare(other, undefined, { numeric: true }):
\* characters are compared by collation weight without regard to case, a run
\* of digits is compared by its numeric value, a proper prefix sorts first
\* and, when nothing else differs, a lower-case letter sorts before its
\* upper-case form
CollationOrder ==
  <<" ", "_", "-", ".", "/">> \o Digits \o Lower

CharWeight(c) ==
  LET u == IF IsUpper(c) THEN Lower[CHOOSE i \in 1..26 : Upper[i] = c] ELSE c
  IN CHOOSE i \in 1..Len(CollationOrder) : CollationOrder[i] = u

RECURSIVE DigitRunLen(_)
DigitRunLen(s) == IF s # <<>> /\ IsDigit(Head(s)) THEN 1 + DigitRunLen(Tail(s)) ELSE 0

RECURSIVE PrimaryCompare(_, _)
PrimaryCompare(a, b) ==
  IF a = <<>> /\ b = <<>> THEN 0
  ELSE IF a = <<>> THEN -1
  ELSE IF b = <<>> THEN 1
  ELSE IF IsDigit(Head(a)) /\ IsDigit(Head(b))
    THEN (LET la == DigitRunLen(a)
              lb == DigitRunLen(b)
              va == DigitsToNat(SubSeq(a, 1, la))
              vb == DigitsToNat(SubSeq(b, 1, lb))
          IN IF va # vb THEN Sign(va - vb)
             ELSE PrimaryCompare(SubSeq(a, la + 1, Len(a)), SubSeq(b, lb + 1, Len(b))))
  ELSE IF CharWeight(Head(a)) # CharWeight(Head(b))
    THEN Sign(CharWeight(Head(a)) - CharWeight(Head(b)))
  ELSE PrimaryCompare(Tail(a), Tail(b))

RECURSIVE CaseCompare(_, _)
CaseCompare(a, b) ==
  IF a = <<>> \/ b = <<>> THEN 0
  ELSE IF Head(a) = Head(b) THEN CaseCompare(Tail(a), Tail(b))
  ELSE IF IsLower(Head(a)) /\ IsUpper(Head(b)) THEN -1
  ELSE IF IsUpper(Head(a)) /\ IsLower(Head(b)) THEN 1
  ELSE 0

localeCompareNumeric(a, b) ==
  LET p == PrimaryCompare(a, b) IN IF p # 0 THEN p ELSE CaseCompare(a, b)

RECURSIVE SeqSum(_)
SeqSum(values) == IF values = <<>> THEN NumI(0) ELSE NumAdd(Head(values), SeqSum(Tail(values)))

median(values) ==
  IF Len(values) = 0 THEN Null
  ELSE LET sorted == ArraySort(values, [i \in 1..Len(values) |->
                                 [j \in 1..Len(values) |-> NumCmp(values[i], values[j])]])
           mid == Len(sorted) \div 2
       IN IF Len(sorted) % 2 # 0 THEN sorted[mid + 1]
          ELSE NumDiv(NumAdd(sorted[mid], sorted[mid + 1]), NumI(2))

average(values) ==
  IF Len(values) = 0 THEN Null ELSE NumDiv(SeqSum(values), NumI(Len(values)))

\* truthiness of the values a summary reads
Truthy(v) ==
  CASE v.t = "bool" -> v.b
    [] v.t = "num" -> v.n # 0
    [] v.t = "str" -> v.s # <<>>
    [] OTHER -> FALSE

\* rows.map(r => r[field]).filter(n => n != null)
DefinedValues(rows, field) ==
  LET IsDefined(r) == ~IsNullish(Get(r, field))
      kept == SelectSeq(rows, IsDefined)
  IN [i \in 1..Len(kept) |-> kept[i][field]]

\* a rate without the guard on an empty denominator
rateUnguarded(count, eligiblePicks) == NumDiv(NumI(count), NumI(eligiblePicks))

\* eligiblePicks ? count / eligiblePicks : null
rateOf(count, eligiblePicks) ==
  IF eligiblePicks # 0 THEN NumDiv(NumI(count), NumI(eligiblePicks)) ELSE Null

summarizeGroup(rows) ==
  LET IsExcluded(r) == Truthy(Get(r, "isDefenseOrKicker"))
      IsEligible(r) == Truthy(Get(r, "isRankEligible"))
      IsUnranked(r) == ~Truthy(Get(r, "isDefenseOrKicker")) /\ ~Truthy(Get(r, "isRankEligible"))
      IsBeat(r) == Truthy(Get(r, "beatCost"))
      IsMet(r) == Truthy(Get(r, "metCost"))
      totalPicks == Len(rows)
      excludedPicks == Len(SelectSeq(rows, IsExcluded))
      eligibleRows == SelectSeq(rows, IsEligible)
      eligiblePicks == Len(eligibleRows)
      unrankedPicks == Len(SelectSeq(rows, IsUnranked))
      beatCount == Len(SelectSeq(eligibleRows, IsBeat))
      metCount == Len(SelectSeq(eligibleRows, IsMet))
      deltas == DefinedValues(eligibleRows, "posRankDelta")
      cappedDeltas == DefinedValues(eligibleRows, "cappedPosRankDelta")
      percentiles == DefinedValues(eligibleRows, "percentileDelta")
      cappedRatios == DefinedValues(eligibleRows, "cappedValueRatio")
  IN ("totalPicks" :> NumI(totalPicks)) @@
     ("eligiblePicks" :> NumI(eligiblePicks)) @@
     ("excludedPicks" :> NumI(excludedPicks)) @@
     ("unrankedPicks" :> NumI(unrankedPicks)) @@
     ("beatCostRate" :> rateOf(beatCount, eligiblePicks)) @@
     ("metOrBeatCostRate" :> rateOf(beatCount + metCount, eligiblePicks)) @@
     ("avgPosRankDelta" :> average(deltas)) @@
     ("medianPosRankDelta" :> median(deltas)) @@
     ("avgCappedPosRankDelta" :> average(cappedDeltas)) @@
     ("avgPercentileDelta" :> average(percentiles)) @@
     ("avgCappedValueRatio" :> average(cappedRatios))

\* groupAndSummarize(entries, keyFn), given keys[i] = keyFn(entries[i])
groupAndSummarize(entries, keys) ==
  LET map == GroupInto(<<>>, keys, entries)
      result == [g \in 1..Len(map) |-> Spread("key" :> map[g].key, summarizeGroup(map[g].rows))]
  IN ArraySort(result, [i \in 1..Len(result) |->
                         [j \in 1..Len(result) |->
                            localeCompareNumeric(JsString(result[i]["key"]),
                                                 JsString(result[j]["key"]))]])

\* .map(({ key, ...rest }) => ({ [name]: key, ...rest }))
RenameKey(result, name) ==
  [i \in 1..Len(result) |-> Spread(name :> result[i]["key"], Omit(result[i], {"key"}))]

yearKey(r) == Coalesce(Get(r, "year"), Str(S_UnknownYear))
positionKey(r) == Coalesce(Get(r, "normalizedPosition"), Str(normalizePosition(Get(r, "position"))))

summarizeByYear(entries) ==
  RenameKey(groupAndSummarize(entries, [i \in 1..Len(entries) |-> yearKey(entries[i])]), "year")

summarizeByManager(entries) ==
  RenameKey(groupAndSummarize(entries,
              [i \in 1..Len(entries) |-> detectManagerValue(entries[i])]), "manager")

summarizeByPosition(entries) ==
  RenameKey(groupAndSummarize(entries,
              [i \in 1..Len(entries) |-> positionKey(entries[i])]), "position")

summarizeByYearAndManager(entries) ==
  LET byYear == GroupInto(<<>>, [i \in 1..Len(entries) |-> yearKey(entries[i])], entries)
      sorted == ArraySort(byYear, [i \in 1..Len(byYear) |->
                                    [j \in 1..Len(byYear) |->
                                       localeCompareNumeric(JsString(byYear[i].key),
                                                            JsString(byYear[j].key))]])
  IN [g \in 1..Len(sorted) |->
        [year |-> sorted[g].key, managers |-> summarizeByManager(sorted[g].rows)]]

\* ---------------------------------------------------------------- inputs
\* the largest number of source records in one run
MaxRows == 2

\* one property of a source record
Prop(name, value) == name :> value

\* a player of the given position picked in year 2 by manager "al", with the
\* given overall pick and finish rank properties (EmptyObj leaves one out)
Pick(position, overallProp, rankProp) ==
  Prop("year", NumI(2)) @@ Prop("position", Str(position)) @@ Prop("manager", Str(<<"a","l">>))
  @@ Prop("player", Str(<<"p">>)) @@ overallProp @@ rankProp

OverallProps == {EmptyObj, Prop("overall", NumI(1)), Prop("overall", NumI(2))}
RankProps == {EmptyObj, Prop("positionrank", NumI(1)), Prop("positionrank", NumI(3))}

\* the base record the variations below are made from
BaseRow == Pick(<<"q","b">>, Prop("overall", NumI(1)), Prop("positionrank", NumI(1)))

\* source records: quarterbacks and kickers with every combination of
\* overall pick and finish rank, and the base record with one property
\* changed to each of the other shapes the field resolver accepts
SourceRows ==
  {Pick(<<"q","b">>, o, r) : o \in OverallProps, r \in RankProps}
  \cup {Pick(<<"K">>, Prop("overall", NumI(1)), r) : r \in {EmptyObj, Prop("positionrank", NumI(1))}}
  \cup {Omit(BaseRow, {"year"}),
        Prop("year", Str(<<"2">>)) @@ BaseRow,
        Prop("year", NumI(10)) @@ BaseRow,
        Prop("year", Q(5, 2)) @@ Prop("overall", Str(<<" ","2">>)) @@ BaseRow,
        Prop("position", Str(<<" ","r","b">>)) @@ Omit(BaseRow, {"positionrank"}),
        Prop("position", Str(<<"x">>)) @@ BaseRow,
        Prop("positionrank", Q(1, 2)) @@ BaseRow,
        Prop("position rank", Str(<<"2",".","5">>)) @@ Omit(BaseRow, {"positionrank"}),
        Prop("positionrank", NumI(-1)) @@ BaseRow,
        Prop("owner", Str(<<"B","o"," ">>)) @@ Omit(BaseRow, {"manager"}),
        Prop("manager", Str(<<" ">>)) @@ Prop("owner", Str(<<"B","o">>)) @@ BaseRow,
        Prop("finishRank", NumI(7)) @@ Omit(BaseRow, {"positionrank"})}

\* configurations: none, and the caps QB 1, RB none, K 2, each with either
\* finish pool strategy
CapOverrides == (S_QB :> NumI(1)) @@ (S_RB :> Null) @@ (S_K :> NumI(2))
Configs ==
  {EmptyObj,
   Prop("finishPoolStrategy", Str(S_cap)),
   Prop("positionCaps", CapOverrides),
   Prop("positionCaps", CapOverrides) @@ Prop("finishPoolStrategy", Str(S_cap))}

RECURSIVE SeqsUpTo(_, _)
SeqsUpTo(S, n) ==
  IF n = 0 THEN {<<>>}
  ELSE LET shorter == SeqsUpTo(S, n - 1)
       IN shorter \cup {Append(q, x) : q \in {p \in shorter : Len(p) = n - 1}, x \in S}

\* ---------------------------------------------------------- state machine
VARIABLES sourceEntries, config, pc, enriched,
          yearSummary, managerSummary, positionSummary, yearManagerSummary

metricVars == <<sourceEntries, config, pc, enriched,
                yearSummary, managerSummary, positionSummary, yearManagerSummary>>

\* the shared navigation of nav-loader.js, after initializeNavLogic has run:
\*   innerWidth          window.innerWidth
\*   menuActive          .nav-menu has the class 'active'
\*   toggleActive        .nav-toggle has the class 'active'
\*   toggleExpanded      aria-expanded of .nav-toggle
\*   itemActive[i]       .nav-item i has the class 'active'
\*   triggerExpanded[i]  aria-expanded of the .dropdown-trigger of item i
\*   closeTimer[i]       the closeTimer variable of item i (0: undefined)
\*   pendingClose[i]     the close timers of item i that are set and not yet
\*                       fired or cleared
\*   resizePending       the resize timer is set and not yet fired
VARIABLES innerWidth, menuActive, toggleActive, toggleExpanded,
          itemActive, triggerExpanded, closeTimer, pendingClose, resizePending

navVars == <<innerWidth, menuActive, toggleActive, toggleExpanded,
             itemActive, triggerExpanded, closeTimer, pendingClose, resizePending>>

vars == <<metricVars, navVars>>

\* the number of .nav-item elements, each with one .dropdown-trigger
NavItemCount == 2
NavItems == 1..NavItemCount
\* the largest number of close timers of one item pending at a time
MaxTimers == 2
\* the width the handlers compare window.innerWidth with
MobileBreakpoint == 768
\* the viewport widths tried
Widths == {600, MobileBreakpoint, MobileBreakpoint + 1}
Keys == {"Escape", "Enter"}

\* the navigation as injected, every dropdown closed, on any viewport
NavInit ==
  /\ innerWidth \in Widths
  /\ menuActive = FALSE
  /\ toggleActive = FALSE
  /\ toggleExpanded = "false"
  /\ itemActive = [i \in NavItems |-> FALSE]
  /\ triggerExpanded = [i \in NavItems |-> "false"]
  /\ closeTimer = [i \in NavItems |-> 0]
  /\ pendingClose = [i \in NavItems |-> {}]
  /\ resizePending = FALSE

\* the navigation of a page nobody touches
NavIdle ==
  /\ innerWidth = MobileBreakpoint + 1
  /\ menuActive = FALSE
  /\ toggleActive = FALSE
  /\ toggleExpanded = "false"
  /\ itemActive = [i \in NavItems |-> FALSE]
  /\ triggerExpanded = [i \in NavItems |-> "false"]
  /\ closeTimer = [i \in NavItems |-> 0]
  /\ pendingClose = [i \in NavItems |-> {}]
  /\ resizePending = FALSE

\* main(): the parsed source file and the configuration are in hand
Init ==
  /\ sourceEntries \in SeqsUpTo(SourceRows, MaxRows)
  /\ config \in Configs
  /\ pc = "loaded"
  /\ enriched = <<>>
  /\ yearSummary = <<>>
  /\ managerSummary = <<>>
  /\ positionSummary = <<>>
  /\ yearManagerSummary = <<>>
  /\ NavIdle

\* const enriched = enrichDraftEntries(sourceEntries, config)
Enrich ==
  /\ pc = "loaded"
  /\ enriched' = enrichDraftEntries(sourceEntries, config)
  /\ pc' = "enriched"
  /\ UNCHANGED <<sourceEntries, config, yearSummary, managerSummary,
                 positionSummary, yearManagerSummary>>
  /\ UNCHANGED navVars

\* const yearSummary = summarizeByYear(enriched)
SummarizeByYear ==
  /\ pc = "enriched"
  /\ yearSummary' = summarizeByYear(enriched)
  /\ pc' = "byYear"
  /\ UNCHANGED <<sourceEntries, config, enriched, managerSummary,
                 positionSummary, yearManagerSummary>>
  /\ UNCHANGED navVars

\* const managerSummary = summarizeByManager(enriched)
SummarizeByManager ==
  /\ pc = "byYear"
  /\ managerSummary' = summarizeByManager(enriched)
  /\ pc' = "byManager"
  /\ UNCHANGED <<sourceEntries, config, enriched, yearSummary,
                 positionSummary, yearManagerSummary>>
  /\ UNCHANGED navVars

\* const positionSummary = summarizeByPosition(enriched)
SummarizeByPosition ==
  /\ pc = "byManager"
  /\ positionSummary' = summarizeByPosition(enriched)
  /\ pc' = "byPosition"
  /\ UNCHANGED <<sourceEntries, config, enriched, yearSummary,
                 managerSummary, yearManagerSummary>>
  /\ UNCHANGED navVars

\* const yearManagerSummary = summarizeByYearAndManager(enriched)
SummarizeByYearAndManager ==
  /\ pc = "byPosition"
  /\ yearManagerSummary' = summarizeByYearAndManager(enriched)
  /\ pc' = "done"
  /\ UNCHANGED <<sourceEntries, config, enriched, yearSummary,
                 managerSummary, positionSummary>>
  /\ UNCHANGED navVars

Next ==
  \/ Enrich
  \/ SummarizeByYear
  \/ SummarizeByManager
  \/ SummarizeByPosition
  \/ SummarizeByYearAndManager

Spec == Init /\ [][Next]_vars

\* the same program on source files whose finish ranks, where present, are
\* whole numbers >= 1
InitWholeRanks ==
  /\ Init
  /\ \A i \in 1..Len(sourceEntries) :
       LET raw == firstPresentValue(sourceEntries[i], FINISH_RANK_FIELD_CANDIDATES)
       IN raw = Undef \/ (IsNum(raw) /\ raw.d = 1 /\ raw.n >= 1)

SpecWholeRanks == InitWholeRanks /\ [][Next]_vars

\* ------------------------------------------------------------- navigation
\* navItems.forEach: remove 'active' and set the trigger's aria-expanded to
\* 'false' (the loops of the outside-click and Escape handlers)
CloseAllItems ==
  /\ itemActive' = [i \in NavItems |-> FALSE]
  /\ triggerExpanded' = [i \in NavItems |-> "false"]

\* navMenu.classList.remove('active'); navToggle.classList.remove('active');
\* navToggle.setAttribute('aria-expanded', 'false')
CloseMenu ==
  /\ menuActive' = FALSE
  /\ toggleActive' = FALSE
  /\ toggleExpanded' = "false"

\* click on .nav-toggle
ToggleClick ==
  /\ IF menuActive
       THEN /\ menuActive' = FALSE
            /\ toggleActive' = FALSE
            /\ toggleExpanded' = "false"
       ELSE /\ menuActive' = TRUE
            /\ toggleActive' = TRUE
            /\ toggleExpanded' = "true"
  /\ UNCHANGED <<innerWidth, itemActive, triggerExpanded, closeTimer,
                 pendingClose, resizePending>>
  /\ UNCHANGED metricVars

\* mouseenter on nav item i
MouseEnter(i) ==
  /\ IF innerWidth > MobileBreakpoint
       THEN /\ pendingClose' = [pendingClose EXCEPT ![i] = @ \ {closeTimer[i]}]
            /\ itemActive' = [itemActive EXCEPT ![i] = TRUE]
            /\ triggerExpanded' = [triggerExpanded EXCEPT ![i] = "true"]
       ELSE UNCHANGED <<pendingClose, itemActive, triggerExpanded>>
  /\ UNCHANGED <<innerWidth, menuActive, toggleActive, toggleExpanded,
                 closeTimer, resizePending>>
  /\ UNCHANGED metricVars

\* mouseleave on nav item i: closeTimer = setTimeout(..., 300)
MouseLeave(i) ==
  /\ IF innerWidth > MobileBreakpoint
       THEN \E id \in (1..MaxTimers) \ pendingClose[i] :
              /\ \A other \in (1..MaxTimers) \ pendingClose[i] : id <= other
              /\ closeTimer' = [closeTimer EXCEPT ![i] = id]
              /\ pendingClose' = [pendingClose EXCEPT ![i] = @ \cup {id}]
       ELSE UNCHANGED <<closeTimer, pendingClose>>
  /\ UNCHANGED <<innerWidth, menuActive, toggleActive, toggleExpanded,
                 itemActive, triggerExpanded, resizePending>>
  /\ UNCHANGED metricVars

\* a close timer of nav item i fires
CloseTimerFires(i) ==
  \E id \in pendingClose[i] :
    /\ pendingClose' = [pendingClose EXCEPT ![i] = @ \ {id}]
    /\ itemActive' = [itemActive EXCEPT ![i] = FALSE]
    /\ triggerExpanded' = [triggerExpanded EXCEPT ![i] = "false"]
    /\ UNCHANGED <<innerWidth, menuActive, toggleActive, toggleExpanded,
                   closeTimer, resizePending>>
    /\ UNCHANGED metricVars

\* click on the dropdown trigger of nav item i; on a wide viewport the
\* handler does nothing and the click, inside .league-nav, closes nothing
TriggerClick(i) ==
  /\ IF innerWidth <= MobileBreakpoint
       THEN /\ itemActive' = [j \in NavItems |-> IF j # i THEN FALSE ELSE ~itemActive[i]]
            /\ triggerExpanded' =
                 [j \in NavItems |->
                    IF j # i THEN "false" ELSE IF itemActive[i] THEN "false" ELSE "true"]
       ELSE UNCHANGED <<itemActive, triggerExpanded>>
  /\ UNCHANGED <<innerWidth, menuActive, toggleActive, toggleExpanded,
                 closeTimer, pendingClose, resizePending>>
  /\ UNCHANGED metricVars

\* click outside .league-nav
OutsideClick ==
  /\ CloseAllItems
  /\ CloseMenu
  /\ UNCHANGED <<innerWidth, closeTimer, pendingClose, resizePending>>
  /\ UNCHANGED metricVars

\* keydown on the document
Keydown(key) ==
  /\ IF key = "Escape"
       THEN CloseAllItems /\ CloseMenu
       ELSE UNCHANGED <<itemActive, triggerExpanded, menuActive, toggleActive, toggleExpanded>>
  /\ UNCHANGED <<innerWidth, closeTimer, pendingClose, resizePending>>
  /\ UNCHANGED metricVars

\* the window is resized to width w: clearTimeout(resizeTimer);
\* resizeTimer = setTimeout(..., 250)
Resize(w) ==
  /\ innerWidth' = w
  /\ resizePending' = TRUE
  /\ UNCHANGED <<menuActive, toggleActive, toggleExpanded, itemActive,
                 triggerExpanded, closeTimer, pendingClose>>
  /\ UNCHANGED metricVars

\* the resize timer fires
ResizeTimerFires ==
  /\ resizePending
  /\ resizePending' = FALSE
  /\ IF innerWidth > MobileBreakpoint
       THEN /\ CloseMenu
            /\ itemActive' = [i \in NavItems |-> FALSE]
            /\ UNCHANGED triggerExpanded
       ELSE UNCHANGED <<menuActive, toggleActive, toggleExpanded, itemActive, triggerExpanded>>
  /\ UNCHANGED <<innerWidth, closeTimer, pendingClose>>
  /\ UNCHANGED metricVars

\* the page with the navigation injected; the draft metrics are not run
InitNav ==
  /\ NavInit
  /\ sourceEntries = <<>>
  /\ config = EmptyObj
  /\ pc = "loaded"
  /\ enriched = <<>>
  /\ yearSummary = <<>>
  /\ managerSummary = <<>>
  /\ positionSummary = <<>>
  /\ yearManagerSummary = <<>>

NextNav ==
  \/ ToggleClick
  \/ \E i \in NavItems : MouseEnter(i)
  \/ \E i \in NavItems : MouseLeave(i)
  \/ \E i \in NavItems : CloseTimerFires(i)
  \/ \E i \in NavItems : TriggerClick(i)
  \/ OutsideClick
  \/ \E key \in Keys : Keydown(key)
  \/ \E w \in Widths : Resize(w)
  \/ ResizeTimerFires

SpecNav == InitNav /\ [][NextNav]_vars

\* ---------------------------------------------------------------- claims
Records == 1..Len(enriched)
IsInteger(v) == IsNum(v) /\ v.d = 1
Tiers == {S_excluded, S_unranked, S_win, S_loss, S_neutral}
IsKickerOrDefense(r) == r["normalizedPosition"].s \in {S_K, S_DST}
\* the configuration in force is the default one
DefaultConfigInForce == mergeConfig(config) = defaultMetricConfig
\* the floored year of a source record, null when it has none
FlooredYear(row) ==
  LET y == toFiniteNumber(Get(row, "year")) IN IF IsNullish(y) THEN Null ELSE NumFloor(y)
\* cohort[i] is the (floored year, position) pair of record i, so that two
\* records are in one cohort exactly when their pairs are equal
CohortIds ==
  [i \in 1..Len(sourceEntries) |->
     <<FlooredYear(sourceEntries[i]), normalizePosition(Get(sourceEntries[i], "position"))>>]

\* C1: every enriched record has exactly one of the five outcome tiers, the
\* tier agrees with beatCost / metCost / missedCost (exactly one of them true
\* for a rank-eligible record, none otherwise), and a K or DST record is
\* 'excluded' and not rank-eligible whatever finish rank its source carries.
C1_TierAgreesWithBooleans ==
  \A i \in Records :
    LET r == enriched[i]
        tier == r["hitTier"].s
        beat == r["beatCost"].b
        met == r["metCost"].b
        missed == r["missedCost"].b
        eligible == r["isRankEligible"].b
    IN /\ tier \in Tiers
       /\ (tier = S_win) <=> beat
       /\ (tier = S_neutral) <=> met
       /\ (tier = S_loss) <=> missed
       /\ eligible => Cardinality({x \in {<<1, beat>>, <<2, met>>, <<3, missed>>} : x[2]}) = 1
       /\ ~eligible => (~beat /\ ~met /\ ~missed)
       /\ IsKickerOrDefense(r) => (tier = S_excluded /\ ~eligible)

\* a kicker whose source carries a finish rank is excluded, next to a win
C1_Witness ==
  /\ pc = "enriched"
  /\ \E i \in Records :
       /\ enriched[i]["normalizedPosition"].s = S_K
       /\ ~IsNullish(enriched[i]["finishRank"])
       /\ enriched[i]["hitTier"].s = S_excluded
  /\ \E i \in Records : enriched[i]["hitTier"].s = S_win

InUnitInterval(v) == NumLe(NumI(0), v) /\ NumLe(v, NumI(1))

\* C2: the draft and finish percentiles, whenever defined, lie in [0, 1], and
\* each is exactly 1 when its pool has size 1.
C2_PercentilesInUnitInterval ==
  \A i \in Records :
    LET r == enriched[i]
        dp == r["draftPercentileWithinPos"]
        fp == r["finishPercentileWithinPos"]
        cfg == mergeConfig(config)
        cap == Coalesce(Get(cfg["positionCaps"], r["normalizedPosition"].s), Null)
        pool == IF cfg["finishPoolStrategy"].s = S_cap /\ ~IsNullish(cap)
                  THEN cap ELSE r["posDraftCount"]
    IN /\ ~IsNullish(dp) => InUnitInterval(dp)
       /\ ~IsNullish(fp) => InUnitInterval(fp)
       /\ (~IsNullish(dp) /\ r["posDraftCount"] = NumI(1)) => dp = NumI(1)
       /\ (~IsNullish(fp) /\ pool = NumI(1)) => fp = NumI(1)

\* C3: the parsed finish rank is absent or an integer >= 1, and under the
\* default configuration every rank-eligible record has an effective finish
\* rank >= 1 and a value ratio that is not a division by zero.
C3_FinishRankPositive ==
  \A i \in Records :
    LET r == enriched[i]
        fr == parseFinishRank(sourceEntries[i])
    IN /\ IsNullish(fr) \/ (IsInteger(fr) /\ fr.n >= 1)
       /\ r["finishRank"] = fr
       /\ (DefaultConfigInForce /\ r["isRankEligible"].b) =>
            /\ NumLe(NumI(1), r["effectiveFinishRank"])
            /\ IsFinite(r["valueRatio"])

\* C4: within a cohort of size N the posDraftOrder values are a bijection
\* onto 1..N, every member has posDraftCount = N, and a comes before b
\* exactly when a's overall pick is smaller, or a has one and b has none, or
\* the picks are equal or both absent and a's source index is smaller.
C4_DraftOrderWithinCohort ==
  LET cohort == CohortIds
      CohortOf(i) == {j \in Records : cohort[j] = cohort[i]}
  IN
  \A i \in Records :
    LET n == Cardinality(CohortOf(i))
        order(k) == enriched[k]["posDraftOrder"]
        pick(k) == toFiniteNumber(Get(sourceEntries[k], "overall"))
        before(a, b) ==
          \/ ~IsNullish(pick(a)) /\ ~IsNullish(pick(b)) /\ NumLt(pick(a), pick(b))
          \/ ~IsNullish(pick(a)) /\ IsNullish(pick(b))
          \/ /\ (IsNullish(pick(a)) /\ IsNullish(pick(b))) \/ pick(a) = pick(b)
             /\ a < b
    IN /\ enriched[i]["posDraftCount"] = NumI(n)
       /\ {order(k) : k \in CohortOf(i)} = {NumI(m) : m \in 1..n}
       /\ \A j \in CohortOf(i) : NumLt(order(i), order(j)) <=> before(i, j)

\* a later record with an overall pick is ordered before an earlier record
\* of its cohort without one, while a record of unknown year stands alone
C4_Witness ==
  /\ pc = "enriched"
  /\ \E i, j \in Records :
       /\ i < j /\ CohortIds[i] = CohortIds[j]
       /\ IsNullish(toFiniteNumber(Get(sourceEntries[i], "overall")))
       /\ enriched[j]["posDraftOrder"] = NumI(1)
       /\ enriched[i]["posDraftOrder"] = NumI(2)
       /\ enriched[i]["posDraftCount"] = NumI(2)

\* the fields enrichDraftEntries computes itself, and the bookkeeping fields
\* it takes out of its result
RecomputedFields ==
  {"__sourceIndex", "__analysisYear", "__analysisOverall",
   "managerValue", "playerValue", "isDefenseOrKicker", "normalizedPosition",
   "isRankEligible", "posDraftOrder", "posDraftCount", "auctionPrice",
   "posPriceOrder", "posPriceCount", "finishRank", "imputedFinishRank",
   "effectiveFinishRank", "cappedFinishRank", "posRankDelta", "cappedPosRankDelta",
   "priceVsFinishDelta", "valueRatio", "cappedValueRatio", "draftPercentileWithinPos",
   "finishPercentileWithinPos", "percentileDelta", "beatCost", "metCost", "missedCost",
   "hitTier"}

LacksPickAndRank(row) ==
  /\ IsNullish(toFiniteNumber(Get(row, "overall")))
  /\ IsNullish(parseFinishRank(row))

\* C5 as stated: under the default configuration every record that lacks
\* both an overall pick and a finish rank gets posDraftOrder = N, and if it
\* is not K/DST imputedFinishRank = N, posRankDelta = 0 and tier 'neutral'.
C5_Original ==
  DefaultConfigInForce =>
    \A i \in Records :
      LET r == enriched[i]
      IN LacksPickAndRank(sourceEntries[i]) =>
           /\ r["posDraftOrder"] = r["posDraftCount"]
           /\ ~IsKickerOrDefense(r) =>
                /\ r["imputedFinishRank"] = r["posDraftCount"]
                /\ r["posRankDelta"] = NumI(0)
                /\ r["hitTier"].s = S_neutral

\* C5 as amended: the same for every such record after which, in source
\* order, no other record of its cohort lacks an overall pick; N is the
\* number of records of the cohort.
C5_LastPicklessRecord ==
  LET cohort == CohortIds
      pickless(k) == IsNullish(toFiniteNumber(Get(sourceEntries[k], "overall")))
  IN DefaultConfigInForce =>
       \A i \in Records :
         LET r == enriched[i]
             n == NumI(Cardinality({j \in Records : cohort[j] = cohort[i]}))
         IN (/\ LacksPickAndRank(sourceEntries[i])
             /\ \A j \in Records : (j > i /\ cohort[j] = cohort[i]) => ~pickless(j)) =>
              /\ r["posDraftOrder"] = n
              /\ ~IsKickerOrDefense(r) =>
                   /\ r["imputedFinishRank"] = n
                   /\ r["posRankDelta"] = NumI(0)
                   /\ r["hitTier"].s = S_neutral

\* a quarterback without pick and rank, second of a cohort of two, is neutral
C5_Witness ==
  /\ pc = "enriched"
  /\ DefaultConfigInForce
  /\ \E i \in Records :
       /\ LacksPickAndRank(sourceEntries[i])
       /\ enriched[i]["normalizedPosition"].s = S_QB
       /\ enriched[i]["posDraftCount"] = NumI(2)
       /\ enriched[i]["imputedFinishRank"] = NumI(2)
       /\ enriched[i]["hitTier"].s = S_neutral

\* C6: enrichDraftEntries returns one record per source record in the same
\* order, leaves the source records as they were, and every source field
\* it does not recompute is in the enriched record with its original value.
C6_SourcePassedThrough ==
  [][Enrich =>
       /\ sourceEntries' = sourceEntries
       /\ Len(enriched') = Len(sourceEntries)
       /\ \A i \in 1..Len(sourceEntries) :
            \A f \in (DOMAIN sourceEntries[i]) \ RecomputedFields :
              /\ f \in DOMAIN enriched'[i]
              /\ StrictEq(enriched'[i][f], sourceEntries[i][f])]_vars

\* two different source records, one with an "owner" and one with a
\* "finishRank" column of its own, have been enriched
C6_Witness ==
  /\ pc = "enriched"
  /\ Len(enriched) = 2
  /\ sourceEntries[1] # sourceEntries[2]
  /\ "owner" \in DOMAIN sourceEntries[1] /\ "owner" \in DOMAIN enriched[1]
  /\ "finishRank" \in DOMAIN sourceEntries[2]
  /\ enriched[2]["finishRank"] # sourceEntries[2]["finishRank"]

\* every group summary of the four views
AllGroupSummaries ==
  {yearSummary[g] : g \in 1..Len(yearSummary)}
  \cup {managerSummary[g] : g \in 1..Len(managerSummary)}
  \cup {positionSummary[g] : g \in 1..Len(positionSummary)}
  \cup UNION {{yearManagerSummary[y].managers[g] : g \in 1..Len(yearManagerSummary[y].managers)}
              : y \in 1..Len(yearManagerSummary)}

\* the enriched records whose key is k
GroupMembers(keys, k) == {i \in Records : StrictEq(keys[i], k)}
Wins(members) == Cardinality({i \in members : enriched[i]["hitTier"].s = S_win})
Neutrals(members) == Cardinality({i \in members : enriched[i]["hitTier"].s = S_neutral})
Eligibles(members) == Cardinality({i \in members : enriched[i]["isRankEligible"].b})

RatesOf(summary, members) ==
  LET e == Eligibles(members)
  IN /\ summary["eligiblePicks"] = NumI(e)
     /\ e = 0 => (summary["beatCostRate"] = Null /\ summary["metOrBeatCostRate"] = Null)
     /\ e # 0 =>
          /\ summary["beatCostRate"] = Q(Wins(members), e)
          /\ summary["metOrBeatCostRate"] = Q(Wins(members) + Neutrals(members), e)

\* C7: in every group summary of the four views both rates are null when
\* eligiblePicks = 0 and otherwise 0 <= beatCostRate <= metOrBeatCostRate <= 1,
\* with beatCostRate = wins / eligiblePicks and
\* metOrBeatCostRate = (wins + neutrals) / eligiblePicks.
C7_RatesGuardedAndBounded ==
  LET yearKeys == [i \in Records |-> yearKey(enriched[i])]
      managerKeys == [i \in Records |-> detectManagerValue(enriched[i])]
      positionKeys == [i \in Records |-> positionKey(enriched[i])]
  IN /\ \A s \in AllGroupSummaries :
          IF s["eligiblePicks"] = NumI(0)
            THEN s["beatCostRate"] = Null /\ s["metOrBeatCostRate"] = Null
            ELSE /\ IsNum(s["beatCostRate"]) /\ IsNum(s["metOrBeatCostRate"])
                 /\ NumLe(NumI(0), s["beatCostRate"])
                 /\ NumLe(s["beatCostRate"], s["metOrBeatCostRate"])
                 /\ NumLe(s["metOrBeatCostRate"], NumI(1))
     /\ \A g \in 1..Len(yearSummary) :
          RatesOf(yearSummary[g], GroupMembers(yearKeys, yearSummary[g]["year"]))
     /\ \A g \in 1..Len(managerSummary) :
          RatesOf(managerSummary[g], GroupMembers(managerKeys, managerSummary[g]["manager"]))
     /\ \A g \in 1..Len(positionSummary) :
          RatesOf(positionSummary[g], GroupMembers(positionKeys, positionSummary[g]["position"]))
     /\ \A y \in 1..Len(yearManagerSummary) :
          \A g \in 1..Len(yearManagerSummary[y].managers) :
            RatesOf(yearManagerSummary[y].managers[g],
                    GroupMembers(yearKeys, yearManagerSummary[y].year)
                    \cap GroupMembers(managerKeys, yearManagerSummary[y].managers[g]["manager"]))

\* all four views are there: one position group has no eligible pick and
\* null rates, the other has one eligible pick that met its cost
C7_Witness ==
  /\ pc = "done"
  /\ Len(yearManagerSummary) = 1
  /\ \E g \in 1..Len(positionSummary) :
       /\ positionSummary[g]["eligiblePicks"] = NumI(0)
       /\ positionSummary[g]["beatCostRate"] = Null
       /\ positionSummary[g]["metOrBeatCostRate"] = Null
  /\ \E g \in 1..Len(positionSummary) :
       /\ positionSummary[g]["eligiblePicks"] = NumI(1)
       /\ positionSummary[g]["beatCostRate"] = NumI(0)
       /\ positionSummary[g]["metOrBeatCostRate"] = NumI(1)

\* what C8 says of one view, given its group keys in output order and the
\* key of every enriched record
ViewWellFormed(groupKeys, totals, recordKeys) ==
  LET text(k) == JsString(k)
  IN /\ \A g, h \in 1..Len(groupKeys) : g # h => text(groupKeys[g]) # text(groupKeys[h])
     /\ {text(groupKeys[g]) : g \in 1..Len(groupKeys)} = {text(recordKeys[i]) : i \in Records}
     /\ \A g, h \in 1..Len(groupKeys) :
          g < h => localeCompareNumeric(text(groupKeys[g]), text(groupKeys[h])) <= 0
     /\ SeqSum(totals) = NumI(Len(enriched))
     /\ enriched = <<>> => groupKeys = <<>>

\* C8: each of the views by year, by manager and by position has exactly one
\* group summary per distinct stringified key, in ascending numeric-aware
\* key order, with totalPicks adding up to the number of records; no
\* records give no groups.
C8_OneGroupPerStringifiedKey ==
  /\ pc \in {"byYear", "byManager", "byPosition", "done"} =>
       ViewWellFormed([g \in 1..Len(yearSummary) |-> yearSummary[g]["year"]],
                      [g \in 1..Len(yearSummary) |-> yearSummary[g]["totalPicks"]],
                      [i \in Records |-> yearKey(enriched[i])])
  /\ pc \in {"byManager", "byPosition", "done"} =>
       ViewWellFormed([g \in 1..Len(managerSummary) |-> managerSummary[g]["manager"]],
                      [g \in 1..Len(managerSummary) |-> managerSummary[g]["totalPicks"]],
                      [i \in Records |-> detectManagerValue(enriched[i])])
  /\ pc \in {"byPosition", "done"} =>
       ViewWellFormed([g \in 1..Len(positionSummary) |-> positionSummary[g]["position"]],
                      [g \in 1..Len(positionSummary) |-> positionSummary[g]["totalPicks"]],
                      [i \in Records |-> positionKey(enriched[i])])

\* C9: the effective finish rank is the parsed finish rank when there is
\* one; without one, a record that is not K/DST gets the pool size: the
\* cohort's posDraftCount under 'draftCount', and under 'cap' the position's
\* cap when it has one and posDraftCount otherwise; K/DST are never imputed.
C9_EffectiveFinishRank ==
  LET cfg == mergeConfig(config) IN
  \A i \in Records :
    LET r == enriched[i]
        parsed == parseFinishRank(sourceEntries[i])
        cap == Get(cfg["positionCaps"], r["normalizedPosition"].s)
        pool == IF cfg["finishPoolStrategy"].s = S_draftCount THEN r["posDraftCount"]
                ELSE IF ~IsNullish(cap) THEN cap
                ELSE r["posDraftCount"]
    IN /\ ~IsNullish(parsed) => r["effectiveFinishRank"] = parsed
       /\ (IsNullish(parsed) /\ ~IsKickerOrDefense(r)) =>
            (r["effectiveFinishRank"] = pool /\ r["imputedFinishRank"] = pool)
       /\ IsKickerOrDefense(r) =>
            (r["imputedFinishRank"] = Null /\ r["effectiveFinishRank"] = parsed)

\* under 'cap' a quarterback without finish rank gets its cap of 24, not
\* the size of its cohort, and a kicker without finish rank gets nothing
C9_Witness ==
  /\ pc = "enriched"
  /\ mergeConfig(config)["finishPoolStrategy"].s = S_cap
  /\ \E i \in Records :
       /\ enriched[i]["normalizedPosition"].s = S_QB
       /\ IsNullish(enriched[i]["finishRank"])
       /\ enriched[i]["effectiveFinishRank"] = NumI(24)
       /\ enriched[i]["posDraftCount"] = NumI(1)
  /\ \E i \in Records :
       /\ enriched[i]["normalizedPosition"].s = S_K
       /\ IsNullish(enriched[i]["finishRank"])
       /\ IsNullish(enriched[i]["effectiveFinishRank"])

\* what C10 says of a record that has a capped finish rank
CappedRankLaw(r, cap) ==
  LET eff == r["effectiveFinishRank"]
      capped == r["cappedFinishRank"]
  IN /\ capped = NumMin(eff, cap)
     /\ NumLe(capped, cap) /\ NumLe(capped, eff)
     /\ r["isRankEligible"].b =>
          /\ r["cappedPosRankDelta"] = NumSub(r["posDraftOrder"], capped)
          /\ NumLe(r["posRankDelta"], r["cappedPosRankDelta"])
          /\ (r["cappedPosRankDelta"] = r["posRankDelta"]) <=> NumLe(eff, cap)

\* C10 as stated: every record whose position has a cap has
\* cappedFinishRank = min(effectiveFinishRank, cap), and if rank-eligible
\* cappedPosRankDelta = posDraftOrder - cappedFinishRank >= posRankDelta,
\* with equality exactly when effectiveFinishRank <= cap.
C10_Original ==
  LET cfg == mergeConfig(config) IN
  \A i \in Records :
    LET r == enriched[i]
        cap == Get(cfg["positionCaps"], r["normalizedPosition"].s)
    IN ~IsNullish(cap) =>
         /\ ~IsNullish(r["effectiveFinishRank"])
         /\ ~IsNullish(r["cappedFinishRank"])
         /\ CappedRankLaw(r, cap)

\* C10 as amended: the same for every record whose position has a cap and
\* that has an effective finish rank; a record without one (a K/DST record
\* without recorded finish rank) has no capped finish rank.
C10_CappedRankWhenRanked ==
  LET cfg == mergeConfig(config) IN
  \A i \in Records :
    LET r == enriched[i]
        cap == Get(cfg["positionCaps"], r["normalizedPosition"].s)
    IN ~IsNullish(cap) =>
         IF IsNullish(r["effectiveFinishRank"])
           THEN r["cappedFinishRank"] = Null
           ELSE CappedRankLaw(r, cap)

\* a rank-eligible record finishes beyond its cap, another within it
C10_Witness ==
  /\ pc = "enriched"
  /\ \E i \in Records :
       /\ enriched[i]["isRankEligible"].b
       /\ enriched[i]["effectiveFinishRank"] = NumI(3)
       /\ enriched[i]["cappedFinishRank"] = NumI(1)
       /\ NumLt(enriched[i]["posRankDelta"], enriched[i]["cappedPosRankDelta"])
  /\ \E i \in Records :
       /\ enriched[i]["isRankEligible"].b
       /\ ~IsNullish(enriched[i]["cappedFinishRank"])
       /\ enriched[i]["cappedPosRankDelta"] = enriched[i]["posRankDelta"]

\* C11: a rank-eligible record whose finish rank was imputed is never a
\* 'win': its imputed finish rank is not less than its posDraftOrder, so its
\* posRankDelta is <= 0.
C11_ImputedNeverWins ==
  \A i \in Records :
    LET r == enriched[i]
    IN (r["isRankEligible"].b /\ IsNullish(r["finishRank"])) =>
         /\ r["hitTier"].s # S_win
         /\ ~NumLt(r["imputedFinishRank"], r["posDraftOrder"])
         /\ NumLe(r["posRankDelta"], NumI(0))

\* C12: in the output of enrichDraftEntries every record that is not K/DST
\* is rank-eligible and no record is 'unranked'; so every group summary of
\* the four views has unrankedPicks = 0 and
\* totalPicks = eligiblePicks + excludedPicks.
C12_NoUnrankedRecord ==
  /\ \A i \in Records :
       LET r == enriched[i]
       IN /\ ~IsKickerOrDefense(r) => r["isRankEligible"].b
          /\ r["hitTier"].s # S_unranked
  /\ \A s \in AllGroupSummaries :
       /\ s["unrankedPicks"] = NumI(0)
       /\ s["totalPicks"] = NumAdd(s["eligiblePicks"], s["excludedPicks"])

\* under 'cap' a running back, whose position has no cap, has no recorded
\* finish rank and is rank-eligible all the same; it is summarized with a
\* kicker in a year group of two picks, one eligible and one excluded
C12_Witness ==
  /\ pc = "done"
  /\ mergeConfig(config)["finishPoolStrategy"].s = S_cap
  /\ \E i \in Records :
       /\ enriched[i]["normalizedPosition"].s = S_RB
       /\ IsNullish(Get(mergeConfig(config)["positionCaps"], S_RB))
       /\ IsNullish(enriched[i]["finishRank"])
       /\ enriched[i]["isRankEligible"].b
  /\ \E g \in 1..Len(yearSummary) :
       /\ yearSummary[g]["totalPicks"] = NumI(2)
       /\ yearSummary[g]["eligiblePicks"] = NumI(1)
       /\ yearSummary[g]["excludedPicks"] = NumI(1)
       /\ yearSummary[g]["unrankedPicks"] = NumI(0)

\* C13: in the shared navigation, after any interleaving of the events, the
\* dropdown trigger of each nav item has aria-expanded = 'true' exactly when
\* the nav item has the class 'active'.
C13_AriaExpandedMatchesActive ==
  \A i \in NavItems : (triggerExpanded[i] = "true") <=> itemActive[i]

====
